---- MODULE Spec2Model ----
(***************************************************************************)
(* Model of enterSelects (src/lib/main.js): the keyword cache, the         *)
(* location-bar input classifier and the per-window selection controller   *)
(* (the _appendCurrentResult wrapper and the keydown listener).            *)
(*                                                                         *)
(* Texts are sequences of one-character strings, so that trimming,         *)
(* slicing and splitting are computed as the code computes them.           *)
(***************************************************************************)
EXTENDS Integers, Sequences, FiniteSets, Bags, TLC

VARIABLES
  cachedKeywords,   \* Map keyword -> boolean (main.js:17); a function on the keys it has
  pendingFetches,   \* bag of keywords with a PlacesUtils.keywords.fetch in flight (main.js:31)
  moz_keywords,     \* the bookmark keywords stored by the backend (main.js:31, 40-44)
  prefetched,       \* the start-up pre-fetch of main.js:40-44 has completed
  value,            \* gURLBar.value
  selectionStart,   \* gURLBar.selectionStart
  selectionEnd,     \* gURLBar.selectionEnd
  popupOpen,        \* gURLBar.popupOpen
  selectedIndex,    \* popup.selectedIndex
  popupMatchCount,  \* popup._matchCount
  matchCount,       \* gURLBar.controller.matchCount
  searchStatus,     \* gURLBar.controller.searchStatus
  selectNext,       \* main.js:53
  origSearch,       \* main.js:56
  origValue,        \* main.js:57
  enterTimers,      \* pending callbacks deferred at main.js:178, in scheduling order
  navChecks,        \* pending callbacks deferred at main.js:147
  enterCommits,     \* pending callbacks deferred at main.js:125
  resolvedFound,    \* history: keywords for which some fetch has resolved to a record
  unanswered,       \* history: suppressed Enter presses less commits, when counted
  out               \* what the last handler did: its name, calls and commands

vars == <<cachedKeywords, pendingFetches, moz_keywords, prefetched, value,
          selectionStart, selectionEnd, popupOpen, selectedIndex, popupMatchCount,
          matchCount, searchStatus, selectNext, origSearch, origValue,
          enterTimers, navChecks, enterCommits, resolvedFound, unanswered, out>>

keywordVars == <<cachedKeywords, pendingFetches>>
fieldVars == <<value, selectionStart, selectionEnd>>
searchVars == <<popupMatchCount, matchCount, searchStatus>>
snapshotVars == <<origSearch, origValue>>
deferVars == <<enterTimers, navChecks, enterCommits>>

----------------------------------------------------------------------------
(* Bounds of the model *)

\* most asynchronous operations pending at once: deferred callbacks and fetches
MaxPending == 2
\* most results a search delivers
MaxMatches == 1

(* Program constants *)

MAX_WAIT_FOR_RESULTS == 350
targetIndex == 1
\* nsIAutoCompleteController status values read at main.js:165
STATUS_NONE == 1
STATUS_SEARCHING == 2
STATUS_COMPLETE_NO_MATCH == 3
STATUS_COMPLETE_MATCH == 4

----------------------------------------------------------------------------
(* Texts *)

\* "ca", "cat", "ca " (trailing blank), "k", "k x", "a:b" (a URI), "a.b" (a domain),
\* "g" (a search engine's alias), ""
txt_ca == <<"c", "a">>
txt_cat == <<"c", "a", "t">>
txt_ca_sp == <<"c", "a", " ">>
txt_k == <<"k">>
txt_k_x == <<"k", " ", "x">>
txt_uri == <<"a", ":", "b">>
txt_dom == <<"a", ".", "b">>
txt_g == <<"g">>
txt_empty == <<>>

\* What the user can have in the field: the value with the selection range.
\* "cat" with "t" selected is "ca" typed and "t" completed inline.
FieldStates ==
  { [value |-> txt_ca, selectionStart |-> 2, selectionEnd |-> 2],
    [value |-> txt_cat, selectionStart |-> 2, selectionEnd |-> 3],
    [value |-> txt_ca_sp, selectionStart |-> 3, selectionEnd |-> 3],
    [value |-> txt_k, selectionStart |-> 1, selectionEnd |-> 1],
    [value |-> txt_k_x, selectionStart |-> 3, selectionEnd |-> 3],
    [value |-> txt_uri, selectionStart |-> 3, selectionEnd |-> 3],
    [value |-> txt_dom, selectionStart |-> 3, selectionEnd |-> 3],
    [value |-> txt_g, selectionStart |-> 1, selectionEnd |-> 1],
    [value |-> txt_empty, selectionStart |-> 0, selectionEnd |-> 0] }

\* Keywords the user may store on a bookmark, and the search engines' aliases
KeywordUniverse == {txt_k}
engineAliases == {txt_g}

isLetter(c) == c \in {"a", "b", "c", "g", "k", "t", "x"}

\* String.prototype.trim
RECURSIVE trimLeft(_)
trimLeft(s) == IF s # <<>> /\ Head(s) = " " THEN trimLeft(Tail(s)) ELSE s
RECURSIVE trimRight(_)
trimRight(s) ==
  IF s # <<>> /\ s[Len(s)] = " " THEN trimRight(SubSeq(s, 1, Len(s) - 1)) ELSE s
trim(s) == trimRight(trimLeft(s))

\* value.slice(0, n)
slice0(s, n) == SubSeq(s, 1, IF n < Len(s) THEN n ELSE Len(s))

\* search.match(/ /) != null
hasSpace(s) == \E i \in 1..Len(s) : s[i] = " "

\* search.split(/\s+/)[0]: the characters before the first whitespace
RECURSIVE firstWord(_)
firstWord(s) ==
  IF s = <<>> \/ Head(s) = " " THEN <<>> ELSE <<Head(s)>> \o firstWord(Tail(s))

\* Services.io.newURI(search) does not throw: letters of a scheme, then a colon
newURI(s) ==
  \E i \in 2..Len(s) : s[i] = ":" /\ \A j \in 1..(i - 1) : isLetter(s[j])

\* Services.eTLD.getBaseDomainFromHost(search) does not throw: a dot between labels
getBaseDomainFromHost(s) ==
  /\ \E i \in 2..(Len(s) - 1) : s[i] = "."
  /\ \A i \in 1..Len(s) : isLetter(s[i]) \/ s[i] = "."

----------------------------------------------------------------------------
(* isKeyword, main.js:18-37.  The call returns a value and may write the   *)
(* cache and start a fetch: the operator gives all three.                  *)

has(map, key) == key \in DOMAIN map
set(map, key, val) == [k \in DOMAIN map \cup {key} |-> IF k = key THEN val ELSE map[k]]

isKeyword(cache, fetches, keyword) ==
  IF has(cache, keyword)
    THEN [ret |-> cache[keyword], cache |-> cache, fetches |-> fetches]
  ELSE IF keyword \in engineAliases
    THEN [ret |-> TRUE, cache |-> set(cache, keyword, TRUE), fetches |-> fetches]
  ELSE [ret |-> FALSE, cache |-> cache, fetches |-> fetches (+) SetToBag({keyword})]

\* getTyped, main.js:64-69
getTyped ==
  LET v == IF selectionEnd = Len(value) THEN slice0(value, selectionStart) ELSE value
  IN  trim(v)

\* as willHandle, without the look at the first word
willHandle_noKeyword(cache, fetches, search) ==
  [ret |-> ~hasSpace(search) /\ (newURI(search) \/ getBaseDomainFromHost(search)),
   cache |-> cache, fetches |-> fetches, keyword |-> <<>>]

\* as willHandle, with the whole text looked up as the keyword
willHandle_wholeText(cache, fetches, search) ==
  IF ~hasSpace(search) /\ (newURI(search) \/ getBaseDomainFromHost(search))
    THEN [ret |-> TRUE, cache |-> cache, fetches |-> fetches, keyword |-> <<>>]
  ELSE LET k == isKeyword(cache, fetches, search)
       IN  [ret |-> k.ret, cache |-> k.cache, fetches |-> k.fetches,
            keyword |-> <<[arg |-> search, ret |-> k.ret]>>]

\* willHandle, main.js:72-94: the result, and isKeyword's effects when it is reached
willHandle(cache, fetches, search) ==
  IF ~hasSpace(search) /\ newURI(search)
    THEN [ret |-> TRUE, cache |-> cache, fetches |-> fetches, keyword |-> <<>>]
  ELSE IF ~hasSpace(search) /\ getBaseDomainFromHost(search)
    THEN [ret |-> TRUE, cache |-> cache, fetches |-> fetches, keyword |-> <<>>]
  ELSE LET k == isKeyword(cache, fetches, firstWord(search))
       IN  [ret |-> k.ret, cache |-> k.cache, fetches |-> k.fetches,
            keyword |-> <<[arg |-> firstWord(search), ret |-> k.ret]>>]

----------------------------------------------------------------------------
(* What a handler reports in out *)

Report(op, prevented, cmds, wh) ==
  [op |-> op, prevented |-> prevented, cmds |-> cmds, fired |-> <<>>,
   willHandle |-> IF wh = <<>> THEN <<>> ELSE <<[arg |-> wh[1].arg, ret |-> wh[1].ret]>>,
   isKeyword |-> IF wh = <<>> THEN <<>> ELSE wh[1].keyword]

\* history: the suppressed Enter presses less the commits made (onTextEntered
\* at main.js:181, handleEnter at main.js:125), as <<n>>; <<>> when no count is
\* kept.  A count is kept while it is from 0 to MaxPending - 1.
Tally(report) ==
  unanswered' =
    IF unanswered = <<>> \/ unanswered[1] < 0 THEN unanswered
    ELSE IF report.op = "keyReturn" /\ report.prevented
      THEN IF unanswered[1] + 1 < MaxPending THEN <<unanswered[1] + 1>> ELSE <<>>
    ELSE IF report.cmds \in {<<"onTextEntered">>, <<"handleEnter">>}
      THEN <<unanswered[1] - 1>>
    ELSE unanswered

Called(search, w) == <<[arg |-> search, ret |-> w.ret, keyword |-> w.keyword]>>

\* defer(callback, delay) of makeWindowHelpers: the callback joins those pending
\* and runs once, in a later turn of the event loop
defer(pending, callback) == Append(pending, callback)

\* The asynchronous operations in flight: deferred callbacks and fetches
Pending ==
  Len(enterTimers) + Len(navChecks) + Len(enterCommits) + BagCardinality(pendingFetches)

Remove(seq, i) == SubSeq(seq, 1, i - 1) \o SubSeq(seq, i + 1, Len(seq))

\* The state after the module has loaded and a window has been set up
Constructed ==
  /\ cachedKeywords = [k \in {} |-> TRUE]
  /\ pendingFetches = EmptyBag
  /\ moz_keywords \in SUBSET KeywordUniverse
  /\ prefetched = FALSE
  /\ value = txt_empty
  /\ selectionStart = 0
  /\ selectionEnd = 0
  /\ popupOpen = FALSE
  /\ selectedIndex = -1
  /\ popupMatchCount = 0
  /\ matchCount = 0
  /\ searchStatus = STATUS_NONE
  /\ selectNext = FALSE
  /\ origSearch = <<>>
  /\ origValue = <<>>
  /\ enterTimers = <<>>
  /\ navChecks = <<>>
  /\ enterCommits = <<>>
  /\ resolvedFound = {}
  /\ out = Report("init", FALSE, <<>>, <<>>)

Init == Constructed /\ unanswered = <<>>

\* the same, with the suppressed Enter presses and the commits counted
InitCounted == Constructed /\ unanswered = <<0>>

----------------------------------------------------------------------------
(* The keyword cache's asynchronous writers *)

\* main.js:31-33: a fetch for keyword settles; a rejected one runs no callback
FetchResolve(keyword, fulfilled) ==
  /\ BagIn(keyword, pendingFetches)
  /\ pendingFetches' = pendingFetches (-) SetToBag({keyword})
  /\ cachedKeywords' = IF fulfilled
                         THEN set(cachedKeywords, keyword, keyword \in moz_keywords)
                         ELSE cachedKeywords
  /\ resolvedFound' = IF fulfilled /\ keyword \in moz_keywords
                        THEN resolvedFound \cup {keyword}
                        ELSE resolvedFound
  /\ out' = Report("host", FALSE, <<>>, <<>>)
  /\ UNCHANGED <<moz_keywords, prefetched, fieldVars, popupOpen, selectedIndex,
                 searchVars, selectNext, snapshotVars, deferVars>>
  /\ Tally(out')

RECURSIVE setAll(_, _)
setAll(map, keys) ==
  IF keys = {} THEN map
  ELSE LET k == CHOOSE x \in keys : TRUE
       IN  setAll(set(map, k, TRUE), keys \ {k})

\* main.js:40-44: the rows of moz_keywords are written to the cache as true
Prefetch ==
  /\ ~prefetched
  /\ prefetched' = TRUE
  /\ cachedKeywords' = setAll(cachedKeywords, moz_keywords)
  /\ out' = Report("host", FALSE, <<>>, <<>>)
  /\ UNCHANGED <<pendingFetches, moz_keywords, fieldVars, popupOpen, selectedIndex,
                 searchVars, selectNext, snapshotVars, deferVars, resolvedFound>>
  /\ Tally(out')

\* The user gives a bookmark a keyword, or takes it away
EditKeyword(keyword) ==
  /\ keyword \in KeywordUniverse
  /\ moz_keywords' = IF keyword \in moz_keywords
                       THEN moz_keywords \ {keyword}
                       ELSE moz_keywords \cup {keyword}
  /\ out' = Report("host", FALSE, <<>>, <<>>)
  /\ UNCHANGED <<keywordVars, prefetched, fieldVars, popupOpen, selectedIndex,
                 searchVars, selectNext, snapshotVars, deferVars, resolvedFound>>
  /\ Tally(out')

----------------------------------------------------------------------------
(* The host: the user's typing, the search and the popup *)

\* The user edits the field; the controller starts a new search, which clears
\* the results and the popup's selection
Type(f) ==
  /\ f \in FieldStates
  /\ value' = f.value
  /\ selectionStart' = f.selectionStart
  /\ selectionEnd' = f.selectionEnd
  /\ matchCount' = 0
  /\ popupMatchCount' = 0
  /\ selectedIndex' = -1
  /\ searchStatus' = IF f.value = <<>> THEN STATUS_NONE ELSE STATUS_SEARCHING
  /\ popupOpen' = IF f.value = <<>> THEN FALSE ELSE popupOpen
  /\ out' = Report("host", FALSE, <<>>, <<>>)
  /\ UNCHANGED <<keywordVars, moz_keywords, prefetched, selectNext, snapshotVars,
                 deferVars, resolvedFound>>
  /\ Tally(out')

\* The search ends
SearchComplete ==
  /\ searchStatus = STATUS_SEARCHING
  /\ searchStatus' = IF matchCount = 0 THEN STATUS_COMPLETE_NO_MATCH
                     ELSE STATUS_COMPLETE_MATCH
  /\ popupOpen' = (popupOpen /\ matchCount > 0)
  /\ selectedIndex' = IF matchCount = 0 THEN -1 ELSE selectedIndex
  /\ out' = Report("host", FALSE, <<>>, <<>>)
  /\ UNCHANGED <<keywordVars, moz_keywords, prefetched, fieldVars, popupMatchCount,
                 matchCount, selectNext, snapshotVars, deferVars, resolvedFound>>
  /\ Tally(out')

\* The popup closes (Escape, blur, a commit), which clears its selection
ClosePopup ==
  /\ popupOpen
  /\ popupOpen' = FALSE
  /\ selectedIndex' = -1
  /\ out' = Report("host", FALSE, <<>>, <<>>)
  /\ UNCHANGED <<keywordVars, moz_keywords, prefetched, fieldVars, searchVars,
                 selectNext, snapshotVars, deferVars, resolvedFound>>
  /\ Tally(out')

\* controller.handleKeyNavigation(DOM_VK_DOWN) from index i: the next row, or none
\* after the last one
navigateDown(i) ==
  IF ~popupOpen THEN i
  ELSE IF i + 1 <= popupMatchCount - 1 THEN i + 1
  ELSE -1

----------------------------------------------------------------------------
(* The _appendCurrentResult wrapper, main.js:97-128 *)

\* main.js:103: something is already selected
alreadySelected(index) == index >= targetIndex

\* as noResults, never returning early
noResults_never(count) == FALSE

\* as noResults, but asking for a second result
noResults_one(count) == count <= 1

\* main.js:107: the popup has no results
noResults(count) == count = 0

\* history: a pending Enter-wait callback has seen the result count at 1 or more
sawResults(timers, count) ==
  [i \in DOMAIN timers |->
     [timers[i] EXCEPT !.sawResults = @ \/ count >= 1]]

\* orig.apply(this, arguments) appends `grow` new results, then the wrapper runs
AppendCurrentResult(grow) ==
  /\ grow \in {0, 1}
  /\ grow = 1 => searchStatus = STATUS_SEARCHING
  /\ matchCount + grow <= MaxMatches
  /\ matchCount' = matchCount + grow
  /\ popupMatchCount' = matchCount + grow
  /\ popupOpen' = (popupOpen \/ grow = 1)
  /\ UNCHANGED <<moz_keywords, prefetched, fieldVars, searchStatus, navChecks,
                 resolvedFound>>
  /\ IF alreadySelected(selectedIndex) \/ noResults(popupMatchCount')
       THEN /\ out' = Report("append", FALSE, <<>>, <<>>)
            /\ enterTimers' = sawResults(enterTimers, matchCount')
            /\ UNCHANGED <<keywordVars, selectedIndex, selectNext, snapshotVars,
                           enterCommits>>
       ELSE LET currentSearch == getTyped
                w == willHandle(cachedKeywords, pendingFetches, currentSearch)
            IN  /\ cachedKeywords' = w.cache
                /\ pendingFetches' = w.fetches
                /\ enterTimers' = sawResults(enterTimers, matchCount')
                /\ IF w.ret
                     THEN /\ out' = Report("append", FALSE, <<>>,
                                           Called(currentSearch, w))
                          /\ UNCHANGED <<selectedIndex, selectNext, snapshotVars,
                                         enterCommits>>
                     ELSE /\ origSearch' = currentSearch
                          /\ origValue' = value
                          /\ selectedIndex' = targetIndex
                          /\ IF selectNext
                               THEN /\ selectNext' = FALSE
                                    /\ enterCommits' = defer(enterCommits, "handleEnter")
                               ELSE UNCHANGED <<selectNext, enterCommits>>
                          /\ out' = Report("append", FALSE, <<"selectedIndex">>,
                                           Called(currentSearch, w))
  /\ Pending' <= MaxPending
  /\ Tally(out')

\* The callback deferred at main.js:125 runs: gURLBar.controller.handleEnter(true)
\* commits the selected result, and the popup closes
HandleEnterRun ==
  /\ enterCommits # <<>>
  /\ enterCommits' = Tail(enterCommits)
  /\ popupOpen' = FALSE
  /\ selectedIndex' = -1
  /\ out' = Report("deferredHandleEnter", FALSE, <<"handleEnter">>, <<>>)
  /\ UNCHANGED <<keywordVars, moz_keywords, prefetched, fieldVars,
                 searchVars, selectNext, snapshotVars, enterTimers, navChecks,
                 resolvedFound>>
  /\ Tally(out')

----------------------------------------------------------------------------
(* The keydown listener, main.js:131-200 *)

\* DOM_VK_LEFT, DOM_VK_RIGHT, DOM_VK_HOME: main.js:134-138
KeyHorizontal ==
  /\ selectedIndex' = -1
  /\ out' = Report("keyHorizontal", FALSE, <<"selectedIndex">>, <<>>)
  /\ UNCHANGED <<keywordVars, moz_keywords, prefetched, fieldVars, popupOpen,
                 searchVars, selectNext, snapshotVars, deferVars, resolvedFound>>
  /\ Tally(out')

\* DOM_VK_UP, DOM_VK_DOWN, DOM_VK_PAGE_UP, DOM_VK_PAGE_DOWN, DOM_VK_TAB:
\* main.js:141-154.  The listener defers the check; the key's default handling
\* then moves the popup's selection to row `row`, or to none.
KeyVertical(row) ==
  /\ Pending < MaxPending
  /\ navChecks' = defer(navChecks, "restore")
  /\ IF popupOpen /\ popupMatchCount > 0
       THEN row \in -1..(popupMatchCount - 1) /\ selectedIndex' = row
       ELSE row = -1 /\ UNCHANGED selectedIndex
  /\ out' = Report("keyVertical", FALSE, <<>>, <<>>)
  /\ UNCHANGED <<keywordVars, moz_keywords, prefetched, fieldVars, popupOpen,
                 searchVars, selectNext, snapshotVars, enterTimers, enterCommits,
                 resolvedFound>>
  /\ Tally(out')

\* as nothingSelected, without the look at the popup
nothingSelected_anyPopup(index, open) == index = -1

\* main.js:149: nothing is selected in the popup, and it is open
nothingSelected(index, open) == index = -1 /\ open

\* The callback deferred at main.js:147 runs: main.js:148-152
RestoreCheck ==
  /\ navChecks # <<>>
  /\ navChecks' = Tail(navChecks)
  /\ IF nothingSelected(selectedIndex, popupOpen)
       THEN /\ value' = origValue
            /\ selectionEnd' = Len(origValue)
            /\ selectionStart' = Len(origSearch)
            /\ out' = Report("restoreCheck", FALSE, <<"textValue", "selectionStart">>,
                             <<>>)
       ELSE /\ UNCHANGED fieldVars
            /\ out' = Report("restoreCheck", FALSE, <<>>, <<>>)
  /\ UNCHANGED <<keywordVars, moz_keywords, prefetched, popupOpen, selectedIndex,
                 searchVars, selectNext, snapshotVars, enterTimers, enterCommits,
                 resolvedFound>>
  /\ Tally(out')

\* MAX_WAIT_FOR_RESULTS / enteredSearch.length, kept as the fraction it is
waitFor(enteredSearch) == [num |-> MAX_WAIT_FOR_RESULTS, den |-> Len(enteredSearch)]

\* as waitingForResults, for a running search only
waitingForResults_running(count, status) == count = 0 /\ status = STATUS_SEARCHING

\* main.js:165: no results so far, and the search is not over
waitingForResults(count, status) == count = 0 /\ status <= STATUS_SEARCHING

\* as autoSelected, for any selected row
autoSelected_anyRow(index) == index >= 0

\* main.js:194: the selected row is the auto-selected one
autoSelected(index) == index = targetIndex

\* DOM_VK_RETURN: main.js:157-198
KeyReturn(modifier) ==
  /\ modifier \in BOOLEAN
  /\ UNCHANGED <<moz_keywords, prefetched, fieldVars, popupOpen, searchVars,
                 snapshotVars, navChecks, enterCommits, resolvedFound>>
  /\ IF modifier
       THEN /\ out' = Report("keyReturnModified", FALSE, <<>>, <<>>)
            /\ UNCHANGED <<keywordVars, selectedIndex, selectNext, enterTimers>>
     ELSE IF waitingForResults(matchCount, searchStatus)
       THEN LET enteredSearch == getTyped
                w == willHandle(cachedKeywords, pendingFetches, enteredSearch)
            IN  /\ cachedKeywords' = w.cache
                /\ pendingFetches' = w.fetches
                /\ UNCHANGED selectedIndex
                /\ IF w.ret
                     THEN /\ out' = Report("keyReturn", FALSE, <<>>,
                                           Called(enteredSearch, w))
                          /\ UNCHANGED <<selectNext, enterTimers>>
                     ELSE /\ selectNext' = TRUE
                          /\ enterTimers' =
                               defer(enterTimers,
                                     [enteredSearch |-> enteredSearch,
                                      delay |-> waitFor(enteredSearch),
                                      sawResults |-> FALSE])
                          /\ out' = Report("keyReturn", TRUE, <<"defer">>,
                                           Called(enteredSearch, w))
     ELSE /\ IF autoSelected(selectedIndex)
               THEN /\ selectedIndex' = navigateDown(targetIndex - 1)
                    /\ out' = Report("keyReturn", FALSE,
                                     <<"selectedIndex", "handleKeyNavigation">>, <<>>)
               ELSE /\ UNCHANGED selectedIndex
                    /\ out' = Report("keyReturn", FALSE, <<>>, <<>>)
          /\ UNCHANGED <<keywordVars, selectNext, enterTimers>>
  /\ Pending' <= MaxPending
  /\ Tally(out')

\* as stillWaiting, without the look at the result count
stillWaiting_textOnly(enteredSearch, typed, count) == enteredSearch = typed

\* as stillWaiting, with the comparison of the texts inverted
stillWaiting_textChanged(enteredSearch, typed, count) ==
  enteredSearch # typed /\ count = 0

\* as stillWaiting, with either condition enough
stillWaiting_either(enteredSearch, typed, count) == enteredSearch = typed \/ count = 0

\* main.js:179: the text is the one entered, and there is still no result
stillWaiting(enteredSearch, typed, count) == enteredSearch = typed /\ count = 0

\* The callback deferred at main.js:178 runs: main.js:179-182.
\* gURLBar.onTextEntered() commits the field's text, and the popup closes.
EnterTimerFire(i) ==
  /\ i \in DOMAIN enterTimers
  /\ enterTimers' = Remove(enterTimers, i)
  /\ IF stillWaiting(enterTimers[i].enteredSearch, getTyped, matchCount)
       THEN /\ selectNext' = FALSE
            /\ popupOpen' = FALSE
            /\ selectedIndex' = -1
            /\ out' = [Report("enterTimer", FALSE, <<"onTextEntered">>, <<>>)
                         EXCEPT !.fired = <<enterTimers[i]>>]
       ELSE /\ UNCHANGED <<selectNext, popupOpen, selectedIndex>>
            /\ out' = [Report("enterTimer", FALSE, <<>>, <<>>)
                         EXCEPT !.fired = <<enterTimers[i]>>]
  /\ UNCHANGED <<keywordVars, moz_keywords, prefetched, fieldVars, searchVars,
                 snapshotVars, navChecks, enterCommits, resolvedFound>>
  /\ Tally(out')

----------------------------------------------------------------------------

\* The first words of the texts: the keywords that are looked up
Keywords == {firstWord(trim(slice0(f.value, f.selectionStart))) : f \in FieldStates}

\* The texts the user types while the controller is exercised
ControllerFields ==
  {f \in FieldStates : f.value \in {txt_ca, txt_cat, txt_k_x, txt_empty}}

\* The selection controller of one window, over a backend whose keywords do not
\* change
Next ==
  \/ \E f \in ControllerFields : Type(f)
  \/ SearchComplete
  \/ ClosePopup
  \/ \E grow \in {0, 1} : AppendCurrentResult(grow)
  \/ HandleEnterRun
  \/ KeyHorizontal
  \/ \E row \in -1..(MaxMatches - 1) : KeyVertical(row)
  \/ RestoreCheck
  \/ \E modifier \in BOOLEAN : KeyReturn(modifier)
  \/ \E i \in 1..MaxPending : EnterTimerFire(i)
  \/ \E k \in Keywords, fulfilled \in BOOLEAN :
        FetchResolve(k, fulfilled)

Spec == Init /\ [][Next]_vars

\* The keyword cache and the classifier, called as results arrive for what the
\* user types, over a backend whose keywords change
NextKeywords ==
  \/ \E f \in FieldStates : Type(f)
  \/ SearchComplete
  \/ \E grow \in {0, 1} : AppendCurrentResult(grow)
  \/ \E k \in Keywords, fulfilled \in BOOLEAN :
        FetchResolve(k, fulfilled)
  \/ Prefetch
  \/ \E k \in KeywordUniverse : EditKeyword(k)

SpecKeywords == Init /\ [][NextKeywords]_vars

\* A deferred callback runs once its delay is over; a fetch may stay pending
\* for ever, and the user and the search owe nothing
Fairness ==
  /\ \A i \in 1..MaxPending : WF_vars(EnterTimerFire(i))
  /\ WF_vars(HandleEnterRun)
  /\ WF_vars(RestoreCheck)

SpecFair == Spec /\ Fairness

\* The selection controller, with the history of Enter presses and commits
SpecCounted == InitCounted /\ [][Next]_vars

----------------------------------------------------------------------------
(* The specification's terms, for the properties below *)

\* isKnownShortcut(token): the cached answer, else the alias registry's
KnownShortcut(token) ==
  IF token \in DOMAIN cachedKeywords THEN cachedKeywords[token]
  ELSE token \in engineAliases

\* hostWillHandle(rawText), by the decision order of the specification
HostWillHandle(rawText) ==
  \/ ~hasSpace(rawText) /\ newURI(rawText)
  \/ ~hasSpace(rawText) /\ getBaseDomainFromHost(rawText)
  \/ KnownShortcut(firstWord(rawText))

\* a results-grew event has just been handled
Appended == out.op = "append"

(* What the handlers report *)

\* Enter has just been suppressed and the bounded wait deferred
Suppressed == out.op = "keyReturn" /\ out.prevented

\* a commit has just been made: the forced default one, or the results-grew one
Committed == out.cmds = <<"onTextEntered">> \/ out.cmds = <<"handleEnter">>

\* an Enter-wait callback has just run
TimerFired == out.op = "enterTimer"

----------------------------------------------------------------------------
----------------------------------------------------------------------------
(* C3: from index -1, a results-grew event that leaves the list non-empty, *)
(* for typed text the host will not handle, sets the selection index to    *)
(* targetIndex (1); a results-grew event that finds the index at           *)
(* targetIndex leaves it there, so the index moves once.                   *)
C3_AutoSelectOnce ==
  [][Appended' =>
       /\ (selectedIndex = -1 /\ popupMatchCount' >= 1 /\ ~HostWillHandle(getTyped))
            => (selectedIndex' = 1 /\ selectedIndex' = targetIndex)
       /\ selectedIndex = targetIndex => selectedIndex' = selectedIndex]_vars

\* a results-grew event finds an index that an earlier one set, and leaves it
C3_Witness ==
  /\ Appended /\ out.cmds = <<>>
  /\ selectedIndex = targetIndex
  /\ origSearch = txt_ca /\ getTyped = txt_ca
  /\ popupMatchCount = 1

(* C4: a results-grew event changes nothing of the controller (selection   *)
(* index, origSearch, origValue, selectNext, no commit deferred) when the  *)
(* index is already at targetIndex or more, or the list is empty, or the   *)
(* host will handle the typed text.                                        *)
C4_NoHijack ==
  [][(/\ Appended'
      /\ \/ selectedIndex >= targetIndex
         \/ popupMatchCount' = 0
         \/ HostWillHandle(getTyped))
       => UNCHANGED <<selectedIndex, origSearch, origValue, selectNext,
                      enterCommits>>]_vars

\* results arrive for "k x" while Enter is awaited, k being a known keyword:
\* nothing is selected
C4_Witness ==
  /\ Appended /\ out.willHandle # <<>> /\ out.willHandle[1].ret
  /\ getTyped = txt_k_x
  /\ popupMatchCount >= 1 /\ selectedIndex = -1
  /\ selectNext

(* C5: the Enter handler prevents the default, sets selectNext and defers  *)
(* the bounded wait exactly when no modifier is held, there is no result,  *)
(* the search status is not past STATUS_SEARCHING and the host will not    *)
(* handle the typed text; otherwise it prevents nothing, leaves selectNext *)
(* alone and defers nothing, and with a modifier held it changes nothing.  *)
C5_EnterSuppression ==
  [][/\ out'.op = "keyReturn" =>
          IF matchCount = 0 /\ searchStatus <= STATUS_SEARCHING
             /\ ~HostWillHandle(getTyped)
            THEN /\ out'.prevented
                 /\ selectNext'
                 /\ Len(enterTimers') = Len(enterTimers) + 1
                 /\ enterTimers'[Len(enterTimers')].enteredSearch = getTyped
            ELSE /\ ~out'.prevented
                 /\ UNCHANGED <<selectNext, enterTimers>>
     /\ out'.op = "keyReturnModified" =>
          /\ ~out'.prevented
          /\ UNCHANGED <<cachedKeywords, pendingFetches, fieldVars, popupOpen,
                         selectedIndex, searchVars, selectNext, snapshotVars,
                         deferVars>>]_vars

\* Enter on "ca" before any result: the default is prevented and the wait begins
C5_Witness ==
  /\ out.op = "keyReturn" /\ out.prevented
  /\ selectNext
  /\ enterTimers # <<>>
  /\ enterTimers[Len(enterTimers)].enteredSearch = txt_ca
  /\ searchStatus = STATUS_SEARCHING

(* C6, as claimed: no keyword has more than one fetch in flight.          *)
C6_Original ==
  \A keyword \in BagToSet(pendingFetches) : CopiesIn(keyword, pendingFetches) <= 1

(* C7, as claimed: a cached keyword keeps its value, and its entry.        *)
C7_Original ==
  [][\A keyword \in DOMAIN cachedKeywords :
       /\ keyword \in DOMAIN cachedKeywords'
       /\ cachedKeywords'[keyword] = cachedKeywords[keyword]]_vars

(* C8, as claimed: once a fetch for a keyword has resolved to a record,    *)
(* every call of isKeyword for it returns true.                            *)
C8_Original ==
  \A keyword \in resolvedFound :
    isKeyword(cachedKeywords, pendingFetches, keyword).ret

(* C9: willHandle answers by the first match of: no whitespace and a URI;  *)
(* no whitespace and a base domain; the first word a known shortcut;       *)
(* otherwise false.                                                        *)
C9_DecisionOrder ==
  out.willHandle # <<>> =>
    LET search == out.willHandle[1].arg
        known == firstWord(search) \in DOMAIN cachedKeywords
                 /\ cachedKeywords[firstWord(search)]
    IN  /\ out.willHandle[1].ret =
             ( \/ ~hasSpace(search) /\ newURI(search)
               \/ ~hasSpace(search) /\ getBaseDomainFromHost(search)
               \/ known )
        /\ (hasSpace(search) /\ ~known) => ~out.willHandle[1].ret

\* "k x", whose first word is a known keyword, is the host's
C9_Witness ==
  /\ out.willHandle # <<>>
  /\ out.willHandle[1].arg = txt_k_x
  /\ out.willHandle[1].ret
  /\ out.isKeyword = <<[arg |-> txt_k, ret |-> TRUE]>>

(* C10: a horizontal key sets the selection index to -1 and defers         *)
(* nothing; a vertical key defers one check; the check, run with nothing   *)
(* selected and the popup open, sets the field's value to origValue and    *)
(* the selection start to the length of origSearch, and otherwise changes  *)
(* nothing.                                                                *)
C10_NavigationRevert ==
  [][/\ out'.op = "keyHorizontal" =>
          selectedIndex' = -1 /\ UNCHANGED deferVars
     /\ out'.op = "keyVertical" =>
          Len(navChecks') = Len(navChecks) + 1
     /\ out'.op = "restoreCheck" =>
          IF selectedIndex = -1 /\ popupOpen
            THEN /\ value' = origValue
                 /\ selectionStart' = Len(origSearch)
                 /\ UNCHANGED <<selectedIndex, snapshotVars, selectNext>>
            ELSE UNCHANGED <<fieldVars, popupOpen, selectedIndex, searchVars,
                             selectNext, snapshotVars, cachedKeywords,
                             pendingFetches, enterTimers, enterCommits>>]_vars

\* the check restores "cat" with the caret after "ca" over what was typed since
C10_Witness ==
  /\ out.op = "restoreCheck" /\ out.cmds # <<>>
  /\ origSearch = txt_ca /\ origValue = txt_cat
  /\ value = txt_cat /\ selectionStart = 2
  /\ selectedIndex = -1 /\ popupOpen

----------------------------------------------------------------------------
(* C11, as claimed: every pending Enter-wait callback was deferred with    *)
(* the delay MAX_WAIT_FOR_RESULTS / length of the entered text, which is a *)
(* defined number (the divisor is not 0; with divisor 0 the quotient is    *)
(* JavaScript's Infinity), at most MAX_WAIT_FOR_RESULTS, and smaller for a *)
(* longer text.                                                            *)
C11_Original ==
  /\ \A i \in DOMAIN enterTimers :
       LET t == enterTimers[i]
       IN  /\ t.delay.num = 350 /\ t.delay.num = MAX_WAIT_FOR_RESULTS
           /\ t.delay.den = Len(t.enteredSearch)
           /\ t.delay.den > 0
           /\ t.delay.num <= MAX_WAIT_FOR_RESULTS * t.delay.den
  /\ \A i, j \in DOMAIN enterTimers :
       Len(enterTimers[i].enteredSearch) < Len(enterTimers[j].enteredSearch)
         => enterTimers[i].delay.num * enterTimers[j].delay.den
              > enterTimers[j].delay.num * enterTimers[i].delay.den

----------------------------------------------------------------------------
(* C12, as claimed: a results-grew event that selects targetIndex while    *)
(* selectNext is true sets selectNext to false and triggers the commit,    *)
(* and the commit (controller.handleEnter) is performed with the selection *)
(* index at targetIndex: nothing has changed the selection in between.     *)
C12_Original ==
  [][/\ (Appended' /\ selectNext /\ out'.cmds = <<"selectedIndex">>)
          => (~selectNext' /\ Len(enterCommits') = Len(enterCommits) + 1)
     /\ out'.cmds = <<"handleEnter">> => selectedIndex = targetIndex]_vars

----------------------------------------------------------------------------
(* C13: Enter with no modifier, with 1 or more results or the search       *)
(* status past STATUS_SEARCHING, never prevents the default; when the      *)
(* selection index is targetIndex it sets the index (to targetIndex - 1)   *)
(* and then issues one handleKeyNavigation(DOWN), in that order, and       *)
(* otherwise it issues nothing and leaves the index alone; either way it   *)
(* changes nothing else.                                                   *)
C13_EnterOnResults ==
  [][(out'.op = "keyReturn" /\ (matchCount >= 1 \/ searchStatus > STATUS_SEARCHING))
       => /\ ~out'.prevented
          /\ IF selectedIndex = targetIndex
               THEN out'.cmds = <<"selectedIndex", "handleKeyNavigation">>
               ELSE out'.cmds = <<>> /\ UNCHANGED selectedIndex
          /\ UNCHANGED <<cachedKeywords, pendingFetches, fieldVars, popupOpen,
                         searchVars, selectNext, snapshotVars, deferVars>>]_vars

\* Enter on the auto-selected row of the results for "ca": the step back, then
\* the navigation down
C13_Witness ==
  /\ out.op = "keyReturn" /\ ~out.prevented
  /\ out.cmds = <<"selectedIndex", "handleKeyNavigation">>
  /\ matchCount >= 1 /\ origSearch = txt_ca

----------------------------------------------------------------------------
(* C14: an Enter-wait callback that runs when the typed text is no longer  *)
(* the entered one, or when the result count is not 0, changes no state    *)
(* (selectNext, selection index, origSearch, origValue, the field, the     *)
(* popup, the other deferred callbacks) and commits nothing; one that runs *)
(* with the text unchanged and the count 0 sets selectNext to false and    *)
(* calls onTextEntered once.                                               *)
C14_StaleTimerNoOp ==
  [][TimerFired' =>
       IF out'.fired[1].enteredSearch = getTyped /\ matchCount = 0
         THEN ~selectNext' /\ out'.cmds = <<"onTextEntered">>
         ELSE /\ out'.cmds = <<>>
              /\ UNCHANGED <<selectNext, selectedIndex, snapshotVars, fieldVars,
                             popupOpen, searchVars, keywordVars, navChecks,
                             enterCommits>>]_vars

\* the user typed on after Enter on "ca": the callback finds another text, with
\* still no result, and does nothing
C14_Witness ==
  /\ TimerFired /\ out.cmds = <<>>
  /\ out.fired[1].enteredSearch = txt_ca /\ getTyped = txt_k_x
  /\ matchCount = 0
  /\ selectNext

----------------------------------------------------------------------------
(* C15, as claimed: at most one Enter-wait callback and at most one        *)
(* vertical-navigation check are pending at any time.                      *)
C15_Original ==
  /\ Len(enterTimers) <= 1
  /\ Len(navChecks) <= 1

----------------------------------------------------------------------------
(* C16, as claimed: a fetch that is rejected leaves its keyword classified *)
(* as not known, exactly as a fetch that resolves to no record does: the   *)
(* cache then holds false for it, so that isKeyword goes on returning      *)
(* false for it without a further lookup.                                  *)
C16_Original ==
  [][\A t \in Keywords :
       FetchResolve(t, FALSE) =>
         /\ cachedKeywords' = set(cachedKeywords, t, FALSE)
         /\ LET k == isKeyword(cachedKeywords', pendingFetches', t)
            IN  ~k.ret /\ k.fetches = pendingFetches']_vars

----------------------------------------------------------------------------
(* C17, as claimed: the commits made (onTextEntered by an Enter-wait       *)
(* callback, handleEnter after a results-grew event) are never more than   *)
(* the Enter presses that were suppressed, so that no suppressed Enter is  *)
(* answered by both.                                                       *)
C17_Original ==
  unanswered # <<>> => unanswered[1] >= 0

----------------------------------------------------------------------------
(* C18, as claimed: while selectNext is true the Enter-wait callback of    *)
(* the Enter press that set it is still pending (it is the one deferred    *)
(* last), and when a results-grew event consumes selectNext the typed text *)
(* is the text entered at that press.                                      *)
C18_Original ==
  [][/\ selectNext' => enterTimers' # <<>>
     /\ (Appended' /\ selectNext /\ ~selectNext')
          => /\ enterTimers # <<>>
             /\ enterTimers[Len(enterTimers)].enteredSearch = getTyped]_vars

----------------------------------------------------------------------------
(* C19, as claimed: right after a handler has written the selection index, *)
(* the index is -1 or less than the popup's result count, and the auto-    *)
(* selection of targetIndex is made only with 2 or more results.           *)
C19_Original ==
  (\E i \in DOMAIN out.cmds : out.cmds[i] = "selectedIndex") =>
    /\ selectedIndex = -1 \/ selectedIndex < popupMatchCount
    /\ Appended => popupMatchCount >= 2

----------------------------------------------------------------------------
(* C20, as claimed: when the check deferred by a vertical key overwrites   *)
(* the field, origValue and origSearch are a snapshot taken by an auto-    *)
(* selection for the text now typed: not the initial empty one, and not    *)
(* one taken for another text.                                             *)
C20_Original ==
  [][(out'.op = "restoreCheck" /\ out'.cmds # <<>>)
       => (origValue # <<>> /\ origSearch = getTyped)]_vars

====
